---------------------------- MODULE Spec2Model ----------------------------
(***************************************************************************)
(* Model of the insight cache / regeneration subsystem of vehicle-insights *)
(* (backend/app/services/ai_service.py, vehicle_service.py, api/routes.py).*)
(*                                                                         *)
(* Seven specifications share the operators translated from the code:      *)
(*   Spec      the cache machine: lookups, invalidation, data changes and  *)
(*             the clock, for one vehicle and its single cache row;        *)
(*   SpecNull  the same machine started on NULLs in nullable columns;      *)
(*   SpecFP    calculate_data_hash applied to aggregates and to edits of   *)
(*             them (reordering, field changes, added records);            *)
(*   SpecGen   generate_vehicle_insights applied to generator outcomes     *)
(*             (a raised call, or a returned text);                        *)
(*   SpecRace  lookups of one vehicle interleaved statement by statement   *)
(*             with each other, with invalidation and with a data change;  *)
(*   SpecFlags _check_has_issues and _check_needs_attention applied to     *)
(*             aggregates and artifacts;                                   *)
(*   SpecApi   the VIN and VRM routes, from the request to the status code.*)
(*                                                                         *)
(* Modelling conventions                                                   *)
(*   - time is counted in hours since an epoch; a date is a day number;    *)
(*   - Python None is NoDate / NoMileage for dates and integers and        *)
(*     NullStr for strings;                                                *)
(*   - a text is a sequence of tokens (a code fence, the word json,        *)
(*     whitespace, prose, a JSON value), so that strip / startswith /      *)
(*     endswith / slicing act on it as they do on the characters;          *)
(*   - a dict is a function from keys to values, so a missing key is a key *)
(*     outside its DOMAIN;                                                 *)
(*   - SHA-256 is taken collision free: the digest is modelled by the      *)
(*     serialized hash input itself.                                       *)
(***************************************************************************)
EXTENDS Integers, Sequences, FiniteSets, TLC

VARIABLES
    now,          \* the clock, hours since the epoch (datetime.now(timezone.utc))
    ticks,        \* how many times the clock has advanced (bounded)
    vehicle,      \* the vehicle aggregate as stored (Vehicle row and related rows)
    summary,      \* the vehicle_ai_summaries row of the vehicle, or NoRow
    resp,         \* what the last lookup / invalidate returned, or NoResp
    prevVehicle,  \* SpecFP: the aggregate before the last edit
    edit,         \* SpecFP: the kind of the last edit
    genIn,        \* SpecGen: the outcome of the external text-generation call
    genOut,       \* SpecGen: what generate_vehicle_insights returned
    flagIn,       \* SpecFlags: the artifact and the day the flags are computed for
    flagOut,      \* SpecFlags: what the two flag checks returned
    apiReq,       \* SpecApi: the request, and what the store and the generator do
    apiResp,      \* SpecApi: the HTTP response
    req,          \* SpecRace: the requests in flight, each with its position
    hist          \* SpecRace: what has happened so far (order of the writes)

flagVars == <<flagIn, flagOut>>
apiVars == <<apiReq, apiResp>>
raceVars == <<req, hist>>

vars == <<now, ticks, vehicle, summary, resp, prevVehicle, edit, genIn, genOut,
          flagVars, apiVars, raceVars>>

----------------------------------------------------------------------------
(* Bounds of the model *)

MaxTicks == 2        \* clock advances in one behaviour
MaxRecords == 2      \* records of one aggregate (SpecFP), over all collections
MaxTouches == 1      \* updates of the vehicle row itself (SpecFP)
MaxTextLen == 4      \* tokens of a generator text (SpecGen)
MaxRequests == 2     \* lookups in flight at the same time (SpecRace)
MaxKeyLen == 18

(* Program constants *)

CACHE_TTL_DAYS == 30         \* cache_age.days > 30
HoursPerDay == 24            \* timedelta.days counts whole 24 hour days
MOT_TAX_DUE_DAYS == 30       \* (due_date_obj - today).days <= 30
FINANCE_END_DAYS == 60       \* (end_date_obj - today).days <= 60
LOW_RELIABILITY_SCORE == 3   \* int(score) <= 3
VIN_LENGTH == 17             \* len(vin.strip()) != 17
VRM_MIN_LENGTH == 2          \* len(vrm.strip()) < 2
VRM_MAX_LENGTH == 15         \* len(vrm.strip()) > 15

NoDate == -1
NoMileage == -1
NullStr == "<null>"
NoRow == [exists |-> FALSE]

----------------------------------------------------------------------------
(* Helpers on sequences and dicts *)

Last(s) == s[Len(s)]

DropFirst(s, n) == SubSeq(s, n + 1, Len(s))

DropLast(s, n) == SubSeq(s, 1, Len(s) - n)

SeqToSet(s) == {s[i] : i \in 1..Len(s)}

\* d[k] = v, as a Python dict assignment: adds the key when it is missing
SetKey(d, k, v) == (k :> v) @@ d

\* d.get(k, default)
Get(d, k, default) == IF k \in DOMAIN d THEN d[k] ELSE default


----------------------------------------------------------------------------
(* The vehicle aggregate: VehicleService._vehicle_to_dict                  *)
(* Each record keeps the fields the fingerprint, the flags and the         *)
(* fallback template read, and one free-text or amount field the           *)
(* fingerprint leaves out.                                                 *)

HistoryRecord(event_type, pass_fail, mileage, advisory_notes) ==
    [event_type |-> event_type, pass_fail |-> pass_fail, mileage |-> mileage,
     advisory_notes |-> advisory_notes]

ValuationRecord(retail_value) == [retail_value |-> retail_value]

RecallRecord(recall_status) == [recall_status |-> recall_status]

OwnershipRecord(change_type) == [change_type |-> change_type]

TheftRecord(current_status) == [current_status |-> current_status]

InsuranceClaimRecord(total_loss, description) ==
    [total_loss |-> total_loss, description |-> description]

MileageRecord(reading_date, mileage) ==
    [reading_date |-> reading_date, mileage |-> mileage]

FinanceRecord(outstanding_finance, finance_end_date) ==
    [outstanding_finance |-> outstanding_finance, finance_end_date |-> finance_end_date]

AuctionRecord(sold) == [sold |-> sold]

Collections ==
    {"valuations", "history", "recalls", "ownership_history", "theft_records",
     "insurance_claims", "mileage_records", "finance_records", "auction_records"}

\* A vehicle with no related rows: the dict _vehicle_to_dict builds for it.
BaseVehicle ==
    [basic |-> [id |-> 1, vin |-> "1HGCM82633A004352", vrm |-> "AB12CDE",
                make |-> "Ford", model |-> "Focus", year |-> "2015",
                engine_size |-> "1.6", fuel_type |-> "Petrol",
                transmission |-> "Manual", body_type |-> "Hatchback",
                co2_emissions |-> "120", insurance_group |-> "12E",
                vehicle_status |-> "active", mot_status |-> "Valid",
                mot_expiry_date |-> 40, tax_status |-> "Taxed",
                tax_due_date |-> 400, updated_at |-> 0],
     valuations |-> <<>>, history |-> <<>>, recalls |-> <<>>,
     ownership_history |-> <<>>, theft_records |-> <<>>,
     insurance_claims |-> <<>>, mileage_records |-> <<>>,
     finance_records |-> <<>>, auction_records |-> <<>>]

TotalRecords(d) ==
    Len(d.valuations) + Len(d.history) + Len(d.recalls) + Len(d.ownership_history)
    + Len(d.theft_records) + Len(d.insurance_claims) + Len(d.mileage_records)
    + Len(d.finance_records) + Len(d.auction_records)

----------------------------------------------------------------------------
(* Fingerprint Engine: VehicleAIService.calculate_data_hash                *)

\* max(records, key=lambda x: x.get('reading_date', date.min)) compares the
\* keys with >: it raises TypeError as soon as a None date meets another key.
MaxByDateRaises(records) ==
    /\ Len(records) >= 2
    /\ \E i \in 1..Len(records) : records[i].reading_date = NoDate

\* max keeps the first of the records that carry the greatest key.
MaxByDate(records) ==
    LET i == CHOOSE k \in 1..Len(records) :
                 /\ \A j \in 1..Len(records) :
                        records[j].reading_date <= records[k].reading_date
                 /\ \A j \in 1..(k - 1) :
                        records[j].reading_date < records[k].reading_date
    IN records[i]

\* max([h.get('mileage') for h in history if h.get('mileage') is not None],
\*     default=None)
MaxHistoryMileage(history) ==
    LET known == {history[i].mileage : i \in 1..Len(history)} \ {NoMileage}
    IN IF known = {} THEN NoMileage
       ELSE CHOOSE m \in known : \A n \in known : n <= m

\* latest_mileage of calculate_data_hash (lines 328-334)
LatestMileage(d) ==
    IF d.mileage_records # <<>> THEN MaxByDate(d.mileage_records).mileage
    ELSE IF d.history # <<>> THEN MaxHistoryMileage(d.history)
    ELSE NoMileage

\* json.dumps of a bool-or-None value
JsonBool(b) == IF b THEN "true" ELSE "false"

\* Mutant: whole collections are hashed, not their lengths and last statuses
HashInput_WholeCollections(d) ==
    [basic |-> [vin |-> d.basic.vin, vrm |-> d.basic.vrm, year |-> d.basic.year,
                mileage |-> LatestMileage(d),
                mot_status |-> d.basic.mot_status,
                mot_expiry_date |-> d.basic.mot_expiry_date,
                vehicle_status |-> d.basic.vehicle_status],
     history |-> d.history,
     valuations |-> d.valuations,
     recalls |-> d.recalls,
     ownership_history |-> d.ownership_history,
     theft_records |-> d.theft_records,
     insurance_claims |-> d.insurance_claims,
     mileage_records_count |-> Len(d.mileage_records),
     finance_records |-> d.finance_records,
     auction_records |-> d.auction_records,
     db_updated_at |-> d.basic.updated_at]

\* Mutant: the status fields of the last records are left out
HashInput_CountsOnly(d) ==
    [basic |-> [vin |-> d.basic.vin, vrm |-> d.basic.vrm, year |-> d.basic.year,
                mileage |-> LatestMileage(d),
                mot_status |-> d.basic.mot_status,
                mot_expiry_date |-> d.basic.mot_expiry_date,
                vehicle_status |-> d.basic.vehicle_status],
     history_count |-> Len(d.history),
     valuations_count |-> Len(d.valuations),
     recalls_count |-> Len(d.recalls),
     ownership_changes_count |-> Len(d.ownership_history),
     theft_records_count |-> Len(d.theft_records),
     insurance_claims_count |-> Len(d.insurance_claims),
     mileage_records_count |-> Len(d.mileage_records),
     finance_records_count |-> Len(d.finance_records),
     auction_records_count |-> Len(d.auction_records),
     db_updated_at |-> d.basic.updated_at]

\* hash_input of calculate_data_hash (lines 336-361). The record is the
\* sort_keys serialization: two hash inputs serialize alike exactly when
\* they agree key by key.
HashInput(d) ==
    [basic |-> [vin |-> d.basic.vin, vrm |-> d.basic.vrm, year |-> d.basic.year,
                mileage |-> LatestMileage(d),
                mot_status |-> d.basic.mot_status,
                mot_expiry_date |-> d.basic.mot_expiry_date,
                vehicle_status |-> d.basic.vehicle_status],
     history_count |-> Len(d.history),
     valuations_count |-> Len(d.valuations),
     recalls_count |-> Len(d.recalls),
     last_recall_status |->
         IF d.recalls # <<>> THEN Last(d.recalls).recall_status ELSE NullStr,
     ownership_changes_count |-> Len(d.ownership_history),
     theft_records_count |-> Len(d.theft_records),
     last_theft_status |->
         IF d.theft_records # <<>> THEN Last(d.theft_records).current_status
         ELSE NullStr,
     insurance_claims_count |-> Len(d.insurance_claims),
     last_claim_total_loss |->
         IF d.insurance_claims # <<>>
         THEN JsonBool(Last(d.insurance_claims).total_loss) ELSE "null",
     mileage_records_count |-> Len(d.mileage_records),
     finance_records_count |-> Len(d.finance_records),
     last_finance_outstanding |->
         IF d.finance_records # <<>>
         THEN JsonBool(Last(d.finance_records).outstanding_finance) ELSE "null",
     auction_records_count |-> Len(d.auction_records),
     last_auction_sold |->
         IF d.auction_records # <<>> THEN JsonBool(Last(d.auction_records).sold)
         ELSE "null",
     db_updated_at |-> d.basic.updated_at]

\* calculate_data_hash raises (TypeError) where its max over the mileage
\* records does.
HashRaises(d) == MaxByDateRaises(d.mileage_records)

\* The digest, where calculate_data_hash returns one.
calculate_data_hash(d) == [sha256 |-> HashInput(d)]

----------------------------------------------------------------------------
(* Texts returned by the external text-generation call                     *)

FENCE == "<fence>"    \* the three backquotes of a Markdown code fence
LANG == "json"
WS == "\n"
PROSE == "Here is my analysis of the car"

\* JSON values the model may answer with. ObjectTokens parse to a dict,
\* ScalarTokens to a list (json.loads succeeds, the value is no dict).
ObjectTokens == {"{insights}", "{alert}", "{flagged}", "{bare}"}
ScalarTokens == {"[1, 2]"}
JsonTokens == ObjectTokens \cup ScalarTokens

Tokens == {FENCE, LANG, WS, PROSE} \cup JsonTokens

\* The answer in the format the prompt asks for (lines 103-125): the prompt
\* lists no technical_highlights.
PromptShaped(score, attention_items) ==
    [summary |-> <<"This car passed its MOT in 2024">>,
     key_insights |-> <<"One owner from new">>,
     owner_advice |-> "Keep up the yearly service",
     reliability_assessment |-> [score |-> score, explanation |-> "From the MOT history"],
     value_assessment |-> [current_market_position |-> "Stable",
                           factors_affecting_value |-> "Mileage"],
     attention_items |-> attention_items,
     cost_insights |-> [typical_maintenance |-> "Yearly service",
                        insurance_notes |-> <<"Group 12E">>,
                        fuel_efficiency |-> <<"120 g/km">>]]

\* json.loads of each object token. A JSON number score is written "#n", a
\* JSON string score as the string.
ObjectOf(token) ==
    CASE token = "{insights}" -> PromptShaped("#8", <<"Service recommended">>)
      [] token = "{alert}" -> PromptShaped("#2", <<"Critical: brake pads worn">>)
      [] token = "{flagged}" ->
            SetKey(PromptShaped("N/A", <<>>), "error_parsing", TRUE)
      [] token = "{bare}" -> [summary |-> <<"Short answer">>, error |-> TRUE]

\* str.strip(): whitespace off both ends
RECURSIVE LStrip(_)
LStrip(t) == IF t # <<>> /\ t[1] = WS THEN LStrip(Tail(t)) ELSE t

RECURSIVE RStrip(_)
RStrip(t) == IF t # <<>> /\ Last(t) = WS THEN RStrip(DropLast(t, 1)) ELSE t

Strip(t) == RStrip(LStrip(t))

\* clean_text.startswith(FENCE + "json")
StartsWithFenceJson(t) == Len(t) >= 2 /\ t[1] = FENCE /\ t[2] = LANG

\* clean_text.endswith(FENCE)
EndsWithFence(t) == t # <<>> /\ Last(t) = FENCE

\* The text handed to json.loads (lines 19-25)
CleanText(text) ==
    LET c1 == Strip(text)
        c2 == IF StartsWithFenceJson(c1) THEN DropFirst(c1, 2) ELSE c1
        c3 == IF EndsWithFence(c2) THEN DropLast(c2, 1) ELSE c2
    IN Strip(c3)

\* json.loads accepts exactly one JSON value (whitespace aside)
JsonLoadsOk(t) == Len(Strip(t)) = 1 /\ Strip(t)[1] \in JsonTokens

\* The dict parse returns on json.JSONDecodeError (lines 29-39)
ParseErrorInsights(text) ==
    [summary |->
         <<"Error: AI could not generate a structured summary. The raw output was: ">>
         \o text,
     key_insights |-> <<>>,
     owner_advice |-> "",
     reliability_assessment |-> [score |-> "N/A", explanation |-> "Data parsing error"],
     value_assessment |-> [current_market_position |-> "N/A",
                           factors_affecting_value |-> "Data parsing error"],
     attention_items |-> <<"Data parsing error">>,
     cost_insights |-> [typical_maintenance |-> "N/A", insurance_notes |-> <<"N/A">>,
                        fuel_efficiency |-> <<"N/A">>],
     technical_highlights |-> <<>>,
     error_parsing |-> TRUE]

\* VehicleInsightsOutputParser.parse: the value returned, and whether it is
\* a dict. No exception leaves parse for a str text.
parse(text) ==
    IF JsonLoadsOk(CleanText(text))
    THEN LET tok == Strip(CleanText(text))[1]
         IN IF tok \in ObjectTokens
            THEN [is_dict |-> TRUE, value |-> ObjectOf(tok)]
            ELSE [is_dict |-> FALSE, value |-> <<>>]
    ELSE [is_dict |-> TRUE, value |-> ParseErrorInsights(text)]

\* Outcomes of self.chain.invoke up to the parser: the call raises, or
\* returns a text.
Raised == [raised |-> TRUE, text |-> <<>>]
Returned(text) == [raised |-> FALSE, text |-> text]

RECURSIVE TextsOfLen(_)
TextsOfLen(n) ==
    IF n = 0 THEN {<<>>}
    ELSE {Append(t, k) : t \in TextsOfLen(n - 1), k \in Tokens}

Texts == UNION {TextsOfLen(n) : n \in 0..MaxTextLen}

----------------------------------------------------------------------------
(* Narrative Generator: VehicleAIService.generate_vehicle_insights         *)

\* datetime.isoformat() of an aware UTC instant, and of a naive one with
\* "Z" appended (vehicle_service.py line 192)
IsoFormatUtc(t) == [instant |-> t, offset |-> "+00:00"]
IsoFormatZ(t) == [instant |-> t, offset |-> "Z"]

\* datetime.fromisoformat(s.replace("Z", "+00:00"))
FromIsoFormat(s) == s.instant

AZURE_DEPLOYMENT == "azure-deployment"

\* _format_data_for_prompt raises before the call is made: line 191 (max
\* over the mileage records), line 192 (.lower() of a None event_type, max
\* over MOT mileages holding a None).
FormatRaises(d) ==
    \/ MaxByDateRaises(d.mileage_records)
    \/ \E i \in 1..Len(d.history) : d.history[i].event_type = NullStr
    \/ LET mot == {i \in 1..Len(d.history) : d.history[i].event_type \in {"MOT", "mot"}}
       IN Cardinality(mot) >= 2 /\ \E i \in mot : d.history[i].mileage = NoMileage

\* _get_fallback_insights (lines 282-316)
FallbackInsights(d, t) ==
    [summary |-> <<"This is a ", d.basic.year, d.basic.make, d.basic.model,
                   ". We encountered an issue generating detailed AI insights at this time. Basic vehicle data is still available.">>,
     key_insights |-> <<"Vehicle information was retrieved from records.",
                        "Detailed AI-powered analysis is temporarily unavailable.",
                        "Please refer to the 'detailed_data' section for raw vehicle information.">>,
     owner_advice |-> "Consult the detailed vehicle data sections",
     reliability_assessment |->
         [score |-> "N/A",
          explanation |-> "AI reliability assessment is currently unavailable."],
     value_assessment |->
         [current_market_position |-> "AI value assessment is currently unavailable.",
          factors_affecting_value |-> "Standard factors"],
     attention_items |->
         <<"Check 'detailed_data' for MOT/Tax due dates and any recall, finance, or theft information.">>,
     cost_insights |->
         [typical_maintenance |-> "AI cost insights are unavailable.",
          insurance_notes |-> <<"Insurance group: ", d.basic.insurance_group>>,
          fuel_efficiency |-> <<"Fuel type: ", d.basic.fuel_type,
                                "CO2 emissions: ", d.basic.co2_emissions>>],
     technical_highlights |->
         <<<<"Engine: ", d.basic.engine_size, d.basic.fuel_type>>,
           <<"Transmission: ", d.basic.transmission>>,
           <<"Body Type: ", d.basic.body_type>>>>,
     generated_at |-> IsoFormatUtc(t),
     model_version |-> "fallback_system",
     error |-> TRUE]

\* Mutant: error is always stamped False
Stamp_ErrorAlwaysFalse(ai_response_dict, t) ==
    SetKey(SetKey(SetKey(ai_response_dict,
        "generated_at", IsoFormatUtc(t)),
        "model_version", AZURE_DEPLOYMENT),
        "error", FALSE)

\* Lines 149-151: the three keys stamped on the parsed dict
Stamp(ai_response_dict, t) ==
    SetKey(SetKey(SetKey(ai_response_dict,
        "generated_at", IsoFormatUtc(t)),
        "model_version", AZURE_DEPLOYMENT),
        "error", Get(ai_response_dict, "error_parsing", FALSE))

\* Mutant: no except clause, a raised call leaves the function
generate_vehicle_insights_NoExcept(d, outcome, t) ==
    IF FormatRaises(d) \/ outcome.raised
    THEN [raised |-> TRUE, value |-> <<>>]
    ELSE LET r == parse(outcome.text)
         IN IF r.is_dict
            THEN [raised |-> FALSE, value |-> Stamp(r.value, t)]
            ELSE [raised |-> TRUE, value |-> <<>>]

\* generate_vehicle_insights(vehicle_data_dict) at instant t, the external
\* call ending in outcome. The whole body sits in try / except Exception:
\* a raised call, a raise while formatting the prompt and the TypeError of
\* stamping a value that is no dict all end in the fallback.
generate_vehicle_insights(d, outcome, t) ==
    IF FormatRaises(d) \/ outcome.raised
    THEN [raised |-> FALSE, value |-> FallbackInsights(d, t)]
    ELSE LET r == parse(outcome.text)
         IN IF r.is_dict
            THEN [raised |-> FALSE, value |-> Stamp(r.value, t)]
            ELSE [raised |-> FALSE, value |-> FallbackInsights(d, t)]

----------------------------------------------------------------------------
(* Derived flags: VehicleService._check_has_issues, _check_needs_attention *)

\* str.upper() / str.lower() comparisons, over the spellings the model uses
IsMot(event_type) == event_type \in {"MOT", "mot"}
IsFail(pass_fail) == pass_fail \in {"FAIL", "Fail", "fail"}
IsOpenRecall(recall_status) ==
    recall_status \in {"Outstanding", "outstanding", "Open", "open", "Not Completed"}

\* item.lower() holds "critical", "safety recall", "stolen" or
\* "outstanding finance" (line 286)
IssueItems ==
    {"Critical: brake pads worn", "Safety recall R/2020/113 is open",
     "Vehicle is recorded as stolen", "Outstanding finance with Acme Finance"}

\* item holds "MOT due", "Tax due", "finance ending" or "outstanding recall",
\* case kept (line 335)
AttentionItems ==
    {"MOT due 2025-01-10", "Tax due next month", "PCP finance ending in May",
     "One outstanding recall",
     "Check 'detailed_data' for MOT/Tax due dates and any recall, finance, or theft information."}

\* bool(score) and int(score): a JSON number "#n", or a JSON string
ScoreTruthy(score) == score \notin {"#0", ""}
ScoreIsInt(score) == score \in {"#0", "#2", "#3", "#8", "0", "2", "3", "8"}
ScoreInt(score) ==
    CASE score \in {"#0", "0"} -> 0
      [] score \in {"#2", "2"} -> 2
      [] score \in {"#3", "3"} -> 3
      [] score \in {"#8", "8"} -> 8

\* The history loop of _check_has_issues (lines 261-263), record by record:
\* "raise" on .upper() of a None, "true" on the first failed MOT.
RECURSIVE ScanHistory(_, _)
ScanHistory(history, i) ==
    IF i > Len(history) THEN "none"
    ELSE IF history[i].event_type = NullStr THEN "raise"
    ELSE IF IsMot(history[i].event_type)
         THEN IF history[i].pass_fail = NullStr THEN "raise"
              ELSE IF IsFail(history[i].pass_fail) THEN "true"
              ELSE ScanHistory(history, i + 1)
    ELSE ScanHistory(history, i + 1)

\* The recall loop (lines 266-268)
RECURSIVE ScanRecalls(_, _)
ScanRecalls(recalls, i) ==
    IF i > Len(recalls) THEN "none"
    ELSE IF recalls[i].recall_status = NullStr THEN "raise"
    ELSE IF IsOpenRecall(recalls[i].recall_status) THEN "true"
    ELSE ScanRecalls(recalls, i + 1)

\* Mutant: the total-loss check of lines 274-276 is left out
IssuesAfterRecalls_NoTotalLoss(d, insights_dict) ==
    \/ \E i \in 1..Len(d.theft_records) : d.theft_records[i].current_status = "stolen"
    \/ \E i \in 1..Len(d.finance_records) : d.finance_records[i].outstanding_finance
    \/ LET items == Get(insights_dict, "attention_items", <<>>)
       IN \E i \in 1..Len(items) : items[i] \in IssueItems
    \/ LET ra == Get(insights_dict, "reliability_assessment", [explanation |-> ""])
           score == Get(ra, "score", "")
       IN ScoreTruthy(score) /\ ScoreIsInt(score)
          /\ ScoreInt(score) <= LOW_RELIABILITY_SCORE

\* Lines 270-296
IssuesAfterRecalls(d, insights_dict) ==
    \/ \E i \in 1..Len(d.theft_records) : d.theft_records[i].current_status = "stolen"
    \/ \E i \in 1..Len(d.insurance_claims) : d.insurance_claims[i].total_loss
    \/ \E i \in 1..Len(d.finance_records) : d.finance_records[i].outstanding_finance
    \/ LET items == Get(insights_dict, "attention_items", <<>>)
       IN \E i \in 1..Len(items) : items[i] \in IssueItems
    \/ LET ra == Get(insights_dict, "reliability_assessment", [explanation |-> ""])
           score == Get(ra, "score", "")
       IN ScoreTruthy(score) /\ ScoreIsInt(score)
          /\ ScoreInt(score) <= LOW_RELIABILITY_SCORE

\* _check_has_issues: "true", "false", or "raise" (AttributeError)
check_has_issues(d, insights_dict) ==
    LET h == ScanHistory(d.history, 1)
        r == ScanRecalls(d.recalls, 1)
    IN IF h # "none" THEN h
       ELSE IF r # "none" THEN r
       ELSE IF IssuesAfterRecalls(d, insights_dict) THEN "true" ELSE "false"

\* datetime.now(timezone.utc).date()
Today(t) == t \div HoursPerDay

\* _check_needs_attention (lines 298-338)
check_needs_attention(d, insights_dict, t) ==
    \/ \E due \in {d.basic.mot_expiry_date, d.basic.tax_due_date} :
           due # NoDate /\ due - Today(t) <= MOT_TAX_DUE_DAYS
    \/ \E i \in 1..Len(d.finance_records) :
           \/ d.finance_records[i].outstanding_finance
           \/ /\ d.finance_records[i].finance_end_date # NoDate
              /\ d.finance_records[i].finance_end_date - Today(t) <= FINANCE_END_DAYS
    \/ LET items == Get(insights_dict, "attention_items", <<>>)
       IN \E i \in 1..Len(items) : items[i] \in AttentionItems

----------------------------------------------------------------------------
(* Insight Cache Manager                                                   *)

\* json.dumps / json.loads of an artifact
JsonDumps(insights_dict) == [json |-> insights_dict]
JsonLoads(insights_json) == insights_json.json

\* timedelta.days
Days(hours) == hours \div HoursPerDay

\* A NULL in the data_hash column
NullHash == [null |-> TRUE]

\* should_regenerate_insights raises where calculate_data_hash does (it
\* computes the hash only when there is a row, lines 367-375), and at
\* generated_at_utc.tzinfo (line 383) when the hashes match and the
\* generated_at column is NULL: hasattr (line 371) is true of every mapped
\* column, NULL or not.
ShouldRegenerateRaises(row, d) ==
    /\ row.exists
    /\ \/ HashRaises(d)
       \/ calculate_data_hash(d) = row.data_hash /\ row.generated_at = NoDate

\* Mutant: an entry is stale from its 30th day on
should_regenerate_insights_From30Days(row, d, t) ==
    IF ~row.exists THEN TRUE
    ELSE IF calculate_data_hash(d) # row.data_hash THEN TRUE
    ELSE Days(t - row.generated_at) >= CACHE_TTL_DAYS

\* VehicleAIService.should_regenerate_insights (lines 366-392)
should_regenerate_insights(row, d, t) ==
    IF ~row.exists THEN TRUE
    ELSE IF calculate_data_hash(d) # row.data_hash THEN TRUE
    ELSE Days(t - row.generated_at) > CACHE_TTL_DAYS

\* What db.commit() (line 250) may do: succeed; fail while flushing the
\* INSERT / UPDATE (constraint violation, statement error); fail at the
\* COMMIT itself after a clean flush.
CommitOutcomes == {"ok", "flush_error", "commit_error"}

\* Nothing is written: an exception was raised inside the try block of
\* _cache_ai_insights (a flag check or the hash raising, the commit failing).
PersistFails(d, insights_dict, commit) ==
    \/ check_has_issues(d, insights_dict) = "raise"
    \/ HashRaises(d)
    \/ commit # "ok"

\* The except clause (lines 254-257) formats vehicle.id into the log message
\* before it calls db.rollback(). A failed flush has deactivated the
\* session's transaction and expired every loaded instance, so reading
\* vehicle.id then raises (the session asks for a rollback first) and the
\* exception leaves _cache_ai_insights. Exceptions raised before the commit,
\* and a failure of the COMMIT statement, leave the instance loaded: the
\* clause logs, rolls back and returns.
CacheHandlerRaises(d, insights_dict, commit) ==
    /\ check_has_issues(d, insights_dict) # "raise"
    /\ ~HashRaises(d)
    /\ commit = "flush_error"

\* VehicleService._cache_ai_insights (lines 215-257): the row after the call
cache_ai_insights(row, d, insights_dict, t, commit) ==
    IF PersistFails(d, insights_dict, commit)
    THEN row
    ELSE [exists |-> TRUE,
          vehicle_id |-> d.basic.id,
          search_key |-> d.basic.vrm,
          insights_json |-> JsonDumps(insights_dict),
          has_issues |-> (check_has_issues(d, insights_dict) = "true"),
          needs_attention |-> check_needs_attention(d, insights_dict, t),
          generated_at |->
              IF "generated_at" \in DOMAIN insights_dict
              THEN FromIsoFormat(insights_dict.generated_at) ELSE t,
          llm_model_version |-> Get(insights_dict, "model_version", "unknown"),
          data_hash |-> calculate_data_hash(d),
          created_at |-> IF row.exists THEN row.created_at ELSE t,
          updated_at |-> t]

\* The cache-hit branch (lines 189-196)
ServeCached(row) ==
    LET stored == JsonLoads(row.insights_json)
    IN SetKey(SetKey(SetKey(SetKey(stored,
        "generated_at", IsoFormatZ(row.generated_at)),
        "model_version", row.llm_model_version),
        "cached", TRUE),
        "error", Get(stored, "error", FALSE))

\* Mutant: the generated artifact is persisted whatever its error flag
get_or_generate_ai_insights_CachesErrors(row, d, t, outcome, commit) ==
    IF ShouldRegenerateRaises(row, d)
    THEN [path |-> "exception", called_generator |-> FALSE,
          insights |-> FallbackInsights(d, t), row |-> row]
    ELSE IF ~should_regenerate_insights(row, d, t) /\ row.exists
    THEN [path |-> "hit", called_generator |-> FALSE,
          insights |-> ServeCached(row), row |-> row]
    ELSE LET fresh_insights == generate_vehicle_insights(d, outcome, t).value
         IN [path |-> IF PersistFails(d, fresh_insights, commit)
                      THEN "not_persisted" ELSE "persisted",
             called_generator |-> TRUE,
             insights |-> SetKey(fresh_insights, "cached", FALSE),
             row |-> cache_ai_insights(row, d, fresh_insights, t, commit)]

\* No artifact: the call ended in an exception
NoInsights == [raised |-> TRUE]

\* Mutant: a cache hit stamps the row it served
get_or_generate_ai_insights_TouchesRowOnHit(row, d, t, outcome, commit) ==
    IF ShouldRegenerateRaises(row, d)
    THEN [path |-> "exception", called_generator |-> FALSE,
          insights |-> FallbackInsights(d, t), row |-> row]
    ELSE IF ~should_regenerate_insights(row, d, t) /\ row.exists
    THEN [path |-> "hit", called_generator |-> FALSE,
          insights |-> ServeCached(row), row |-> [row EXCEPT !.updated_at = t]]
    ELSE LET fresh_insights == generate_vehicle_insights(d, outcome, t).value
         IN IF fresh_insights.error
            THEN [path |-> "error_artifact", called_generator |-> TRUE,
                  insights |-> SetKey(fresh_insights, "cached", FALSE), row |-> row]
            ELSE IF CacheHandlerRaises(d, fresh_insights, commit)
            THEN [path |-> "raised", called_generator |-> TRUE,
                  insights |-> NoInsights, row |-> row]
            ELSE LET after == cache_ai_insights(row, d, fresh_insights, t, commit)
                 IN [path |-> IF PersistFails(d, fresh_insights, commit)
                                 THEN "not_persisted" ELSE "persisted",
                     called_generator |-> TRUE,
                     insights |-> SetKey(fresh_insights, "cached", FALSE),
                     row |-> after]

\* VehicleService._get_or_generate_ai_insights (lines 182-213): the
\* artifact returned, the row afterwards, the branch taken and whether the
\* generator was called. An exception that leaves _cache_ai_insights reaches
\* the except clause of lines 211-213, whose log message reads vehicle.id
\* in the same session state and raises in turn: path "raised".
get_or_generate_ai_insights(row, d, t, outcome, commit) ==
    IF ShouldRegenerateRaises(row, d)
    THEN [path |-> "exception", called_generator |-> FALSE,
          insights |-> FallbackInsights(d, t), row |-> row]
    ELSE IF ~should_regenerate_insights(row, d, t) /\ row.exists
    THEN [path |-> "hit", called_generator |-> FALSE,
          insights |-> ServeCached(row), row |-> row]
    ELSE LET fresh_insights == generate_vehicle_insights(d, outcome, t).value
         IN IF fresh_insights.error
            THEN [path |-> "error_artifact", called_generator |-> TRUE,
                  insights |-> SetKey(fresh_insights, "cached", FALSE), row |-> row]
            ELSE IF CacheHandlerRaises(d, fresh_insights, commit)
            THEN [path |-> "raised", called_generator |-> TRUE,
                  insights |-> NoInsights, row |-> row]
            ELSE LET after == cache_ai_insights(row, d, fresh_insights, t, commit)
                 IN [path |-> IF PersistFails(d, fresh_insights, commit)
                                 THEN "not_persisted" ELSE "persisted",
                     called_generator |-> TRUE,
                     insights |-> SetKey(fresh_insights, "cached", FALSE),
                     row |-> after]

----------------------------------------------------------------------------
(* Spec: the cache machine                                                 *)

NoResp == [op |-> "none"]
NoGen == [done |-> FALSE]
NoEdit == [kind |-> "none", coll |-> "", index |-> 0]

\* The variables of the other specifications, at rest
FlagsIdle == flagIn = [set |-> FALSE] /\ flagOut = [done |-> FALSE]
ApiIdle == apiReq = [set |-> FALSE] /\ apiResp = [done |-> FALSE]
RaceIdle == req = <<>> /\ hist = <<>>

\* Aggregates the stored vehicle moves between
TotalLossVehicle ==
    [BaseVehicle EXCEPT !.insurance_claims = <<InsuranceClaimRecord(TRUE, "Write-off")>>]

NullReadingDateVehicle ==
    [BaseVehicle EXCEPT !.mileage_records =
        <<MileageRecord(10, 100), MileageRecord(NoDate, 300)>>]

NullEventTypeVehicle ==
    [BaseVehicle EXCEPT !.history = <<HistoryRecord(NullStr, NullStr, 100, "")>>]

SettledFinanceVehicle ==
    [BaseVehicle EXCEPT !.finance_records = <<FinanceRecord(FALSE, 0)>>]

DataVersions ==
    {BaseVehicle, TotalLossVehicle, NullReadingDateVehicle, NullEventTypeVehicle,
     SettledFinanceVehicle}

\* What the external call may do during a lookup
LookupOutcomes ==
    {Raised, Returned(<<"{insights}">>), Returned(<<PROSE>>),
     Returned(<<FENCE, LANG, WS, "{alert}", WS, FENCE>>), Returned(<<"{bare}">>)}

\* One hour, the cache lifetime
TickSteps == {1, CACHE_TTL_DAYS * HoursPerDay}

Init ==
    /\ now = 0
    /\ ticks = 0
    /\ vehicle = BaseVehicle
    /\ summary = NoRow
    /\ resp = NoResp
    /\ prevVehicle = BaseVehicle
    /\ edit = NoEdit
    /\ genIn = Raised
    /\ genOut = NoGen
    /\ FlagsIdle /\ ApiIdle /\ RaceIdle

\* GET /vehicle/vin/{vin} or /vehicle/vrm/{vrm} of the stored vehicle:
\* get_comprehensive_vehicle_data loads the aggregate with its cache row and
\* calls _get_or_generate_ai_insights.
Lookup(outcome, commit) ==
    LET r == get_or_generate_ai_insights(summary, vehicle, now, outcome, commit)
    IN /\ summary' = r.row
       /\ resp' = [op |-> "lookup", path |-> r.path,
                   called_generator |-> r.called_generator,
                   insights |-> r.insights, row_before |-> summary,
                   data |-> vehicle, at |-> now, outcome |-> outcome,
                   after_refresh |-> (resp.op = "refresh")]
       /\ UNCHANGED <<now, ticks, vehicle, prevVehicle, edit, genIn, genOut,
                    flagVars, apiVars, raceVars>>

\* Mutant: the route answers without deleting the row
RefreshInsights_KeepsRow ==
    /\ summary' = summary
    /\ resp' = [op |-> "refresh", row_before |-> summary,
                 after_refresh |-> (resp.op = "refresh")]
    /\ UNCHANGED <<now, ticks, vehicle, prevVehicle, edit, genIn, genOut,
                    flagVars, apiVars, raceVars>>

\* GET /vehicle/{vehicle_id}/refresh-insights (routes.py lines 167-201)
RefreshInsights ==
    /\ summary' = NoRow
    /\ resp' = [op |-> "refresh", row_before |-> summary,
                 after_refresh |-> (resp.op = "refresh")]
    /\ UNCHANGED <<now, ticks, vehicle, prevVehicle, edit, genIn, genOut,
                    flagVars, apiVars, raceVars>>

\* The stored data of the vehicle is changed by a writer outside the service
ChangeData(v) ==
    /\ v # vehicle
    /\ vehicle' = v
    /\ resp' = NoResp
    /\ UNCHANGED <<now, ticks, summary, prevVehicle, edit, genIn, genOut,
                 flagVars, apiVars, raceVars>>

\* Time passes
Tick(step) ==
    /\ ticks < MaxTicks
    /\ now' = now + step
    /\ ticks' = ticks + 1
    /\ resp' = NoResp
    /\ UNCHANGED <<vehicle, summary, prevVehicle, edit, genIn, genOut,
                 flagVars, apiVars, raceVars>>

Next ==
    \/ \E outcome \in LookupOutcomes, commit \in CommitOutcomes : Lookup(outcome, commit)
    \/ RefreshInsights
    \/ \E v \in DataVersions : ChangeData(v)
    \/ \E step \in TickSteps : Tick(step)

Spec == Init /\ [][Next]_vars

\* SpecNull: the cache machine started on a database holding NULLs in
\* nullable columns: a cache row written outside the service with a NULL
\* data_hash or a NULL generated_at (models.py lines 336, 338), or a MOT
\* record with a NULL pass_fail or a recall with a NULL recall_status
\* (models.py lines 268, 290)
InitNull ==
    LET written == cache_ai_insights(NoRow, BaseVehicle,
                                     Stamp(ObjectOf("{insights}"), 0), 0, "ok")
        NullPassFailVehicle ==
            [BaseVehicle EXCEPT !.history = <<HistoryRecord("MOT", NullStr, 100, "")>>]
        NullRecallStatusVehicle ==
            [BaseVehicle EXCEPT !.recalls = <<RecallRecord(NullStr)>>]
    IN /\ now = 0
       /\ ticks = 0
       /\ \/ /\ vehicle = BaseVehicle
             /\ summary \in {[written EXCEPT !.data_hash = NullHash],
                              [written EXCEPT !.generated_at = NoDate]}
          \/ /\ vehicle \in {NullPassFailVehicle, NullRecallStatusVehicle}
             /\ summary = NoRow
       /\ resp = NoResp
       /\ prevVehicle = BaseVehicle
       /\ edit = NoEdit
       /\ genIn = Raised
       /\ genOut = NoGen
       /\ FlagsIdle /\ ApiIdle /\ RaceIdle

SpecNull == InitNull /\ [][Next]_vars

----------------------------------------------------------------------------
(* SpecFP: calculate_data_hash over aggregates and edits of them           *)
(* vehicle is the aggregate, prevVehicle the aggregate one edit earlier.   *)

\* Records a writer may add to each collection
NewRecords(coll) ==
    CASE coll = "valuations" -> {ValuationRecord(5000)}
      [] coll = "history" -> {HistoryRecord("MOT", "PASS", m, "") : m \in {100, 300}}
      [] coll = "recalls" -> {RecallRecord(st) : st \in {"Completed", "Open"}}
      [] coll = "ownership_history" -> {OwnershipRecord("private_to_private")}
      [] coll = "theft_records" -> {TheftRecord(st) : st \in {"stolen", "recovered"}}
      [] coll = "insurance_claims" -> {InsuranceClaimRecord(b, "") : b \in BOOLEAN}
      [] coll = "mileage_records" ->
            {MileageRecord(dt, m) : dt \in {10, 20}, m \in {100, 300}}
      [] coll = "finance_records" -> {FinanceRecord(b, 50) : b \in BOOLEAN}
      [] coll = "auction_records" -> {AuctionRecord(b) : b \in BOOLEAN}

\* The collection with the records at positions i and j exchanged
Swap(records, i, j) ==
    [k \in 1..Len(records) |->
        IF k = i THEN records[j] ELSE IF k = j THEN records[i] ELSE records[k]]

OtherOf(x, pair) == CHOOSE y \in pair : y # x

InitFP ==
    /\ vehicle = BaseVehicle
    /\ prevVehicle = BaseVehicle
    /\ edit = NoEdit
    /\ now = 0
    /\ ticks = 0
    /\ summary = NoRow
    /\ resp = NoResp
    /\ genIn = Raised
    /\ genOut = NoGen
    /\ FlagsIdle /\ ApiIdle /\ RaceIdle

Edited(v, kind, coll, index) ==
    /\ vehicle' = v
    /\ prevVehicle' = vehicle
    /\ edit' = [kind |-> kind, coll |-> coll, index |-> index]
    /\ UNCHANGED <<now, ticks, summary, resp, genIn, genOut,
                 flagVars, apiVars, raceVars>>

\* A row is inserted into one of the related tables
AddRecord(coll, rec) ==
    /\ TotalRecords(vehicle) < MaxRecords
    /\ Edited([vehicle EXCEPT ![coll] = Append(@, rec)], "add", coll,
              Len(vehicle[coll]) + 1)

\* The relationship (no order_by) yields the same rows in another order
Reorder(coll, i, j) ==
    /\ i < j /\ j <= Len(vehicle[coll])
    /\ vehicle[coll][i] # vehicle[coll][j]
    /\ Edited([vehicle EXCEPT ![coll] = Swap(@, i, j)], "reorder", coll, i)

\* recall_status of one recall changes
SetRecallStatus(i) ==
    /\ i <= Len(vehicle.recalls)
    /\ Edited([vehicle EXCEPT !.recalls[i].recall_status =
                  OtherOf(@, {"Completed", "Open"})],
              "set_recall_status", "recalls", i)

\* current_status of one theft record changes
SetTheftStatus(i) ==
    /\ i <= Len(vehicle.theft_records)
    /\ Edited([vehicle EXCEPT !.theft_records[i].current_status =
                  OtherOf(@, {"stolen", "recovered"})],
              "set_theft_status", "theft_records", i)

\* outstanding_finance of one finance record flips
FlipOutstandingFinance(i) ==
    /\ i <= Len(vehicle.finance_records)
    /\ Edited([vehicle EXCEPT !.finance_records[i].outstanding_finance = ~@],
              "flip_outstanding_finance", "finance_records", i)

\* total_loss of one insurance claim flips
FlipTotalLoss(i) ==
    /\ i <= Len(vehicle.insurance_claims)
    /\ Edited([vehicle EXCEPT !.insurance_claims[i].total_loss = ~@],
              "flip_total_loss", "insurance_claims", i)

\* mot_status of the vehicle row changes, and with it updated_at (onupdate)
SetMotStatus ==
    /\ vehicle.basic.updated_at < MaxTouches
    /\ Edited([vehicle EXCEPT !.basic.mot_status = OtherOf(@, {"Valid", "Expired"}),
                              !.basic.updated_at = @ + 1],
              "set_mot_status", "basic", 0)

\* A field the hash input leaves out changes on a related row: advisory
\* notes of a history record, the description of a claim, a valuation
\* amount. The vehicle row, and so its updated_at, is not touched.
CosmeticEdit(coll, i) ==
    /\ i <= Len(vehicle[coll])
    /\ \/ /\ coll = "history"
          /\ Edited([vehicle EXCEPT !.history[i].advisory_notes =
                        OtherOf(@, {"", "Nearside front tyre worn"})],
                    "cosmetic", coll, i)
       \/ /\ coll = "insurance_claims"
          /\ Edited([vehicle EXCEPT !.insurance_claims[i].description =
                        OtherOf(@, {"", "Rear-end collision"})],
                    "cosmetic", coll, i)
       \/ /\ coll = "valuations"
          /\ Edited([vehicle EXCEPT !.valuations[i].retail_value =
                        OtherOf(@, {5000, 6000})],
                    "cosmetic", coll, i)

NextFP ==
    \/ \E coll \in Collections : \E rec \in NewRecords(coll) : AddRecord(coll, rec)
    \/ \E coll \in Collections : \E i, j \in 1..(MaxRecords + 1) : Reorder(coll, i, j)
    \/ \E i \in 1..(MaxRecords + 1) : SetRecallStatus(i)
    \/ \E i \in 1..(MaxRecords + 1) : SetTheftStatus(i)
    \/ \E i \in 1..(MaxRecords + 1) : FlipOutstandingFinance(i)
    \/ \E i \in 1..(MaxRecords + 1) : FlipTotalLoss(i)
    \/ SetMotStatus
    \/ \E coll \in {"history", "insurance_claims", "valuations"} :
           \E i \in 1..(MaxRecords + 1) : CosmeticEdit(coll, i)

SpecFP == InitFP /\ [][NextFP]_vars

----------------------------------------------------------------------------
(* SpecGen: generate_vehicle_insights over the outcomes of the call        *)

InitGen ==
    /\ genIn \in {Raised} \cup {Returned(text) : text \in Texts}
    /\ genOut = NoGen
    /\ FlagsIdle /\ ApiIdle /\ RaceIdle
    /\ vehicle \in {BaseVehicle, NullEventTypeVehicle}
    /\ now = 0
    /\ ticks = 0
    /\ summary = NoRow
    /\ resp = NoResp
    /\ prevVehicle = BaseVehicle
    /\ edit = NoEdit

Generate ==
    /\ ~genOut.done
    /\ LET r == generate_vehicle_insights(vehicle, genIn, now)
       IN genOut' = [done |-> TRUE, raised |-> r.raised, value |-> r.value]
    /\ UNCHANGED <<now, ticks, vehicle, summary, resp, prevVehicle, edit, genIn,
                 flagVars, apiVars, raceVars>>

NextGen == Generate

SpecGen == InitGen /\ [][NextGen]_vars

----------------------------------------------------------------------------
(* SpecRace: lookups of one vehicle running side by side, and invalidate   *)
(* Every request has its own session (database.py get_db). A lookup is     *)
(* cut where it reads or writes the store: the load of the aggregate with  *)
(* its cache row, the external call, the query for the existing row in     *)
(* _cache_ai_insights, and the commit. hist.row_id is the primary key of   *)
(* the row now in the table (0: none), hist.issued the last key handed out,*)
(* hist.src the aggregate the artifact of that row was generated from.     *)
(* req[p].data is the dict _vehicle_to_dict built when request p loaded.   *)

Requests == 1..MaxRequests

IdleRequest ==
    [pc |-> "idle", path |-> "", raced |-> FALSE, first_after |-> FALSE,
     artifact |-> NoInsights, insights |-> NoInsights,
     existing |-> FALSE, existing_id |-> 0, data |-> BaseVehicle]

\* A row persisted while the vehicle had other data: its fingerprint no
\* longer matches
StaleRow ==
    cache_ai_insights(NoRow, TotalLossVehicle,
                      Stamp(ObjectOf("{insights}"), 0), 0, "ok")

RaceOutcomes == {Raised, Returned(<<"{insights}">>), Returned(<<"{alert}">>)}

InitRace ==
    /\ now = 0
    /\ ticks = 0
    /\ vehicle = BaseVehicle
    /\ summary \in {NoRow, StaleRow}
    /\ resp = NoResp
    /\ prevVehicle = BaseVehicle
    /\ edit = NoEdit
    /\ genIn = Raised
    /\ genOut = NoGen
    /\ FlagsIdle /\ ApiIdle
    /\ req = [p \in Requests |-> IdleRequest]
    /\ hist = [fresh |-> FALSE, attempts |-> <<>>,
               row_id |-> IF summary.exists THEN 1 ELSE 0,
               issued |-> IF summary.exists THEN 1 ELSE 0,
               src |-> IF summary.exists THEN TotalLossVehicle ELSE BaseVehicle]

RaceUnchanged ==
    UNCHANGED <<now, ticks, vehicle, resp, prevVehicle, edit, genIn, genOut,
                flagVars, apiVars>>

\* get_comprehensive_vehicle_data up to the decision of
\* _get_or_generate_ai_insights (vehicle_service.py lines 42-196): the
\* query loads the vehicle with its ai_summary, should_regenerate_insights
\* decides on that row, and a hit is answered at once.
Load(p) ==
    /\ req[p].pc = "idle"
    /\ LET hit == summary.exists /\ ~should_regenerate_insights(summary, vehicle, now)
       IN req' = [req EXCEPT ![p] =
                    [@ EXCEPT !.pc = IF hit THEN "done" ELSE "loaded",
                              !.path = IF hit THEN "hit" ELSE "",
                              !.insights = IF hit THEN ServeCached(summary) ELSE NoInsights,
                              !.raced = (hist.attempts = <<>>),
                              !.data = vehicle,
                              !.first_after = hist.fresh]]
    /\ hist' = [hist EXCEPT !.fresh = FALSE]
    /\ UNCHANGED summary
    /\ RaceUnchanged

\* Lines 200-209: the generator is called; an error artifact is returned
\* without an upsert.
CallGenerator(p, outcome) ==
    /\ req[p].pc = "loaded"
    /\ LET fresh_insights == generate_vehicle_insights(req[p].data, outcome, now).value
       IN req' = [req EXCEPT ![p] =
                    IF fresh_insights.error
                    THEN [@ EXCEPT !.pc = "done", !.path = "error_artifact",
                                   !.artifact = fresh_insights,
                                   !.insights = SetKey(fresh_insights, "cached", FALSE)]
                    ELSE [@ EXCEPT !.pc = "generated", !.artifact = fresh_insights]]
    /\ UNCHANGED <<summary, hist>>
    /\ RaceUnchanged

\* _cache_ai_insights line 217: existing_summary = db.query(...).first()
QueryExisting(p) ==
    /\ req[p].pc = "generated"
    /\ req' = [req EXCEPT ![p] =
                 [@ EXCEPT !.pc = "queried", !.existing = summary.exists,
                           !.existing_id = hist.row_id]]
    /\ UNCHANGED <<summary, hist>>
    /\ RaceUnchanged

\* Mutant: vehicle_id carries no unique index, a second INSERT goes through
FlushFails_NoUniqueIndex(p) ==
    IF req[p].existing
    THEN ~summary.exists \/ hist.row_id # req[p].existing_id
    ELSE FALSE

\* The flush of db.commit() (line 250) fails: the UPDATE of a row that is no
\* longer there matches nothing, the INSERT of a second row for the vehicle
\* breaks the unique index on vehicle_id (models.py line 330).
FlushFails(p) ==
    IF req[p].existing
    THEN ~summary.exists \/ hist.row_id # req[p].existing_id
    ELSE summary.exists

\* Mutant: the upsert hashes the data as it is at the time of the commit,
\* not the dict the artifact was generated from
Commit_HashesReloadedData(p) ==
    /\ req[p].pc = "queried"
    /\ LET commit == IF FlushFails(p) THEN "flush_error" ELSE "ok"
           raises == CacheHandlerRaises(vehicle, req[p].artifact, commit)
           fails == PersistFails(vehicle, req[p].artifact, commit)
       IN /\ summary' = IF fails THEN summary
                        ELSE cache_ai_insights(
                                 IF req[p].existing THEN summary ELSE NoRow,
                                 vehicle, req[p].artifact, now, commit)
          /\ req' = [req EXCEPT ![p] =
                       [@ EXCEPT !.pc = "done",
                                 !.path = IF raises THEN "raised"
                                          ELSE IF fails THEN "not_persisted"
                                          ELSE "persisted",
                                 !.insights =
                                     IF raises THEN NoInsights
                                     ELSE SetKey(req[p].artifact, "cached", FALSE)]]
          /\ hist' = [hist EXCEPT
                        !.attempts = Append(@, p),
                        !.row_id = IF ~fails /\ ~req[p].existing
                                   THEN hist.issued + 1 ELSE @,
                        !.issued = IF ~fails /\ ~req[p].existing
                                   THEN @ + 1 ELSE @,
                        !.src = IF fails THEN @ ELSE req[p].data]
    /\ RaceUnchanged

\* Lines 219-257, and the return of lines 208-213
Commit(p) ==
    /\ req[p].pc = "queried"
    /\ LET commit == IF FlushFails(p) THEN "flush_error" ELSE "ok"
           raises == CacheHandlerRaises(req[p].data, req[p].artifact, commit)
           fails == PersistFails(req[p].data, req[p].artifact, commit)
       IN /\ summary' = IF fails THEN summary
                        ELSE cache_ai_insights(
                                 IF req[p].existing THEN summary ELSE NoRow,
                                 req[p].data, req[p].artifact, now, commit)
          /\ req' = [req EXCEPT ![p] =
                       [@ EXCEPT !.pc = "done",
                                 !.path = IF raises THEN "raised"
                                          ELSE IF fails THEN "not_persisted"
                                          ELSE "persisted",
                                 !.insights =
                                     IF raises THEN NoInsights
                                     ELSE SetKey(req[p].artifact, "cached", FALSE)]]
          /\ hist' = [hist EXCEPT
                        !.attempts = Append(@, p),
                        !.row_id = IF ~fails /\ ~req[p].existing
                                   THEN hist.issued + 1 ELSE @,
                        !.issued = IF ~fails /\ ~req[p].existing
                                   THEN @ + 1 ELSE @,
                        !.src = IF fails THEN @ ELSE req[p].data]
    /\ RaceUnchanged

\* refresh_vehicle_insights (routes.py lines 184-192): DELETE and commit
Invalidate ==
    /\ summary' = NoRow
    /\ hist' = [hist EXCEPT !.fresh = TRUE, !.row_id = 0]
    /\ UNCHANGED req
    /\ RaceUnchanged

\* The vehicle's data change while lookups are in flight: an insurance
\* claim with total_loss is recorded
RecordTotalLoss ==
    /\ vehicle = BaseVehicle
    /\ vehicle' = TotalLossVehicle
    /\ UNCHANGED <<now, ticks, summary, resp, prevVehicle, edit, genIn, genOut,
                   flagVars, apiVars, raceVars>>

NextRace ==
    \/ \E p \in Requests : Load(p)
    \/ \E p \in Requests, outcome \in RaceOutcomes : CallGenerator(p, outcome)
    \/ \E p \in Requests : QueryExisting(p)
    \/ \E p \in Requests : Commit(p)
    \/ Invalidate
    \/ RecordTotalLoss

SpecRace == InitRace /\ [][NextRace]_vars

----------------------------------------------------------------------------
(* SpecFlags: _check_has_issues and _check_needs_attention over aggregates *)
(* and artifacts, on one day                                               *)

\* The day the flags are computed on
FlagDay == 100

\* Aggregates with at most one record per collection: a failed or passed
\* MOT, a failed service, a record with null fields; recall, theft, claim
\* and finance records of either kind; dates before and after FlagDay
FlagVehicles ==
    LET DuePast == FlagDay - 50
        DueSoon == FlagDay + 10
        DueLater == FlagDay + 45
        DueFar == FlagDay + 300
        HistoryChoices ==
            {<<>>, <<HistoryRecord("MOT", "FAIL", 100, "")>>,
             <<HistoryRecord("MOT", "PASS", 100, "")>>,
             <<HistoryRecord("Service", "FAIL", 100, "")>>,
             <<HistoryRecord(NullStr, NullStr, 100, "")>>}
        RecallChoices ==
            {<<>>, <<RecallRecord("Open")>>, <<RecallRecord("Completed")>>}
        TheftChoices ==
            {<<>>, <<TheftRecord("stolen")>>, <<TheftRecord("recovered")>>}
        ClaimChoices ==
            {<<>>, <<InsuranceClaimRecord(TRUE, "")>>,
             <<InsuranceClaimRecord(FALSE, "")>>}
        FinanceChoices ==
            {<<>>, <<FinanceRecord(TRUE, DueFar)>>, <<FinanceRecord(FALSE, DuePast)>>,
             <<FinanceRecord(FALSE, DueLater)>>, <<FinanceRecord(FALSE, DueFar)>>}
        MotExpiryChoices == {DuePast, DueSoon, DueLater}
    IN {[BaseVehicle EXCEPT !.history = h, !.recalls = r, !.theft_records = th,
                            !.insurance_claims = c, !.finance_records = f,
                            !.basic.mot_expiry_date = m,
                            !.basic.tax_due_date = DueFar] :
           h \in HistoryChoices, r \in RecallChoices, th \in TheftChoices,
           c \in ClaimChoices, f \in FinanceChoices, m \in MotExpiryChoices}

\* Artifacts of a successful generation: the score as a JSON number, as a
\* JSON string or as N/A, and the attention items
FlagArtifacts ==
    LET FlagScores == {"#0", "#3", "#8", "0", "N/A"}
        FlagItems ==
            {<<>>, <<"Service recommended">>, <<"Critical: brake pads worn">>,
             <<"MOT due 2025-01-10">>}
    IN {PromptShaped(sc, items) : sc \in FlagScores, items \in FlagItems}

InitFlags ==
    /\ now = FlagDay * HoursPerDay
    /\ ticks = 0
    /\ vehicle \in FlagVehicles
    /\ summary = NoRow
    /\ resp = NoResp
    /\ prevVehicle = BaseVehicle
    /\ edit = NoEdit
    /\ genIn = Raised
    /\ genOut = NoGen
    /\ flagIn \in {[set |-> TRUE, insights |-> a] : a \in FlagArtifacts}
    /\ flagOut = [done |-> FALSE]
    /\ ApiIdle /\ RaceIdle

\* _cache_ai_insights lines 219-220: the two flags of the row to be written
ComputeFlags ==
    /\ ~flagOut.done
    /\ flagOut' = [done |-> TRUE,
                   has_issues |-> check_has_issues(vehicle, flagIn.insights),
                   needs_attention |->
                       check_needs_attention(vehicle, flagIn.insights, now)]
    /\ UNCHANGED <<now, ticks, vehicle, summary, resp, prevVehicle, edit, genIn,
                   genOut, flagIn, apiVars, raceVars>>

NextFlags == ComputeFlags

SpecFlags == InitFlags /\ [][NextFlags]_vars

----------------------------------------------------------------------------
(* SpecApi: the two lookup routes, from the path parameter to the status   *)

\* The characters of the stored vehicle's VIN and VRM
Chars(text) ==
    CASE text = "AB12CDE" -> <<"A", "B", "1", "2", "C", "D", "E">>
      [] text = "1HGCM82633A004352" ->
            <<"1", "H", "G", "C", "M", "8", "2", "6", "3", "3", "A", "0", "0",
              "4", "3", "5", "2">>

\* str.upper(), character by character
Upper(key) ==
    LET up(c) == CASE c = "a" -> "A" [] c = "b" -> "B" [] c = "c" -> "C"
                   [] c = "d" -> "D" [] c = "e" -> "E" [] c = "g" -> "G"
                   [] c = "h" -> "H" [] c = "m" -> "M" [] c = "x" -> "X"
                   [] OTHER -> c
    IN [i \in 1..Len(key) |-> up(key[i])]

\* key.strip(): spaces off both ends
RECURSIVE StripSpaces(_)
StripSpaces(key) ==
    IF key # <<>> /\ key[1] = " " THEN StripSpaces(Tail(key))
    ELSE IF key # <<>> /\ Last(key) = " " THEN StripSpaces(DropLast(key, 1))
    ELSE key

\* key.replace(" ", "")
RECURSIVE RemoveSpaces(_)
RemoveSpaces(key) ==
    IF key = <<>> THEN <<>>
    ELSE IF key[1] = " " THEN RemoveSpaces(Tail(key))
    ELSE <<key[1]>> \o RemoveSpaces(Tail(key))

\* Path parameters: two words of up to MaxKeyLen letters in all, or the
\* stored VIN or VRM in either case, with or without a space before,
\* between and after
ApiKeys ==
    LET Fill(n) == [i \in 1..n |-> "x"]
        low(c) == CASE c = "A" -> "a" [] c = "B" -> "b" [] c = "C" -> "c"
                    [] c = "D" -> "d" [] c = "E" -> "e" [] c = "G" -> "g"
                    [] c = "H" -> "h" [] c = "M" -> "m" [] OTHER -> c
        Lower(key) == [i \in 1..Len(key) |-> low(key[i])]
        Spaces(n) == [i \in 1..n |-> " "]
        vin == Chars(BaseVehicle.basic.vin)
        vrm == Chars(BaseVehicle.basic.vrm)
        Words ==
            {<<Fill(n), Fill(m)>> : n \in 0..(MaxKeyLen - 1), m \in 0..1}
            \cup {<<SubSeq(w, 1, 4), SubSeq(w, 5, Len(w))>> :
                     w \in {vin, vrm, Lower(vin), Lower(vrm)}}
    IN {Spaces(l) \o w[1] \o Spaces(k) \o w[2] \o Spaces(t) :
           w \in Words, l \in 0..1, k \in 0..1, t \in 0..1}

\* The fields AIInsights and its nested models declare without a default
\* (schemas.py lines 185-214)
ValidatesAIInsights(a) ==
    LET nested(k, required) ==
            k \in DOMAIN a => required \subseteq DOMAIN a[k]
    IN /\ {"summary", "overall_score", "overall_score_explaination",
           "owner_advice"} \subseteq DOMAIN a
       /\ nested("reliability_assessment", {"score", "explanation"})
       /\ nested("value_assessment",
                 {"current_market_position", "factors_affecting_value", "score",
                  "roi"})
       /\ nested("cost_insights",
                 {"typical_maintenance", "insurance_notes", "fuel_efficiency"})

\* The cache rows a request may find: none, one holding an answer in the
\* format of the prompt, one holding an answer that carries every field of
\* the schema
StoredRows ==
    LET shaped == PromptShaped("#8", <<"Service recommended">>)
        complete ==
            SetKey(SetKey([shaped EXCEPT !.value_assessment =
                              [current_market_position |-> "Stable",
                               factors_affecting_value |-> "Mileage",
                               score |-> "7", roi |-> "Low"]],
                          "overall_score", "8"),
                   "overall_score_explaination", "Sound history")
    IN {NoRow} \cup {cache_ai_insights(NoRow, BaseVehicle, Stamp(a, 0), 0, "ok") :
                        a \in {shaped, complete}}

\* get_comprehensive_vehicle_data (lines 40-67): search_term is the cleaned
\* key, db tells whether the queries of the session succeed. Every exception
\* in the body ends in the return None of line 67.
get_comprehensive_vehicle_data(search_term, search_type, db, row, d, t, outcome, commit) ==
    LET stored == IF search_type = "vin" THEN Chars(d.basic.vin)
                  ELSE Chars(d.basic.vrm)
        Assemble(r) ==
            IF r.path = "raised"
            THEN [found |-> FALSE, raised |-> TRUE, row |-> row]
            ELSE [found |-> TRUE,
                  data |-> [vehicle_id |-> d.basic.id,
                            search_term |-> Upper(search_term),
                            search_type |-> search_type,
                            ai_insights |-> r.insights,
                            detailed_data |-> d,
                            last_updated |-> t],
                  raised |-> FALSE, row |-> r.row]
    IN IF db = "down"
       THEN [found |-> FALSE, raised |-> TRUE, row |-> row]
       ELSE IF Upper(search_term) # stored
       THEN [found |-> FALSE, raised |-> FALSE, row |-> row]
       ELSE Assemble(get_or_generate_ai_insights(row, d, t, outcome, commit))

\* The part the two routes share from the loader call on (routes.py lines
\* 47-60 and 99-112), and the validation of the returned dict against
\* response_model=VehicleResponse
AnswerLookup(search_term, search_type, db, row, d, t, outcome, commit) ==
    LET Answer(got) ==
            IF ~got.found
            THEN [status |-> 404, loader_called |-> TRUE, raised |-> got.raised,
                  body |-> [detail |-> "not found"], row |-> got.row]
            ELSE IF ~ValidatesAIInsights(got.data.ai_insights)
            THEN [status |-> 500, loader_called |-> TRUE, raised |-> FALSE,
                  body |-> [detail |-> "Internal Server Error"], row |-> got.row]
            ELSE [status |-> 200, loader_called |-> TRUE, raised |-> FALSE,
                  body |-> got.data, row |-> got.row]
    IN Answer(get_comprehensive_vehicle_data(search_term, search_type, db, row,
                                             d, t, outcome, commit))

\* GET /vehicle/vin/{vin} (routes.py lines 18-69)
get_vehicle_by_vin(vin, db, row, d, t, outcome, commit) ==
    IF vin = <<>> \/ Len(StripSpaces(vin)) # VIN_LENGTH
    THEN [status |-> 400, loader_called |-> FALSE, raised |-> FALSE,
          body |-> [detail |-> "bad key"], row |-> row]
    ELSE AnswerLookup(Upper(StripSpaces(vin)), "vin", db, row, d, t, outcome, commit)

\* GET /vehicle/vrm/{vrm} (routes.py lines 71-122)
get_vehicle_by_vrm(vrm, db, row, d, t, outcome, commit) ==
    IF \/ vrm = <<>>
       \/ Len(StripSpaces(vrm)) < VRM_MIN_LENGTH
       \/ Len(StripSpaces(vrm)) > VRM_MAX_LENGTH
    THEN [status |-> 400, loader_called |-> FALSE, raised |-> FALSE,
          body |-> [detail |-> "bad key"], row |-> row]
    ELSE AnswerLookup(Upper(RemoveSpaces(StripSpaces(vrm))), "vrm", db, row, d, t,
                      outcome, commit)

InitApi ==
    /\ now = 0
    /\ ticks = 0
    /\ vehicle = BaseVehicle
    /\ summary \in StoredRows
    /\ resp = NoResp
    /\ prevVehicle = BaseVehicle
    /\ edit = NoEdit
    /\ genIn = Raised
    /\ genOut = NoGen
    /\ FlagsIdle /\ ApiIdle /\ RaceIdle

\* One request to either route, with the state of the database connection,
\* the outcome of the external call and of the commit
Request(search_type, key, db, outcome, commit) ==
    /\ ~apiResp.done
    /\ \E a \in {IF search_type = "vin"
                 THEN get_vehicle_by_vin(key, db, summary, vehicle, now, outcome,
                                         commit)
                 ELSE get_vehicle_by_vrm(key, db, summary, vehicle, now, outcome,
                                         commit)} :
          /\ apiReq' = [set |-> TRUE, search_type |-> search_type, key |-> key,
                        db |-> db, outcome |-> outcome, commit |-> commit]
          /\ apiResp' = [done |-> TRUE, status |-> a.status,
                         loader_called |-> a.loader_called, raised |-> a.raised,
                         body |-> a.body]
          /\ summary' = a.row
    /\ UNCHANGED <<now, ticks, vehicle, resp, prevVehicle, edit, genIn, genOut,
                   flagVars, raceVars>>

NextApi ==
    LET ApiOutcomes == {Raised, Returned(<<"{insights}">>), Returned(<<PROSE>>)}
    IN \/ \E key \in ApiKeys, db \in {"up", "down"}, outcome \in ApiOutcomes,
             commit \in CommitOutcomes : Request("vin", key, db, outcome, commit)
       \/ \E key \in ApiKeys, db \in {"up", "down"}, outcome \in ApiOutcomes,
             commit \in CommitOutcomes : Request("vrm", key, db, outcome, commit)

SpecApi == InitApi /\ [][NextApi]_vars

----------------------------------------------------------------------------
(* Claims                                                                  *)

CacheLifetimeHours == CACHE_TTL_DAYS * HoursPerDay

\* The keys of a stored artifact that carry the narrative
NarrativeKeys(stored) ==
    DOMAIN stored \ {"generated_at", "model_version", "cached", "error"}

\* The precondition of a cache hit as the claims state it: a row whose
\* fingerprint is that of the aggregate looked up
FingerprintMatches ==
    /\ resp.op = "lookup"
    /\ resp.row_before.exists
    /\ ~HashRaises(resp.data)
    /\ resp.row_before.data_hash = calculate_data_hash(resp.data)

\* C1: a lookup that finds a cache row whose fingerprint equals the
\* fingerprint of the current aggregate and whose generated_at is at most 30
\* days old is a hit: should_regenerate is false, the generator is not
\* called, and the artifact returned has the stored narrative sections,
\* cached = true, and generated_at / model_version of the cache row.
C1_CacheHitServesStored ==
    (FingerprintMatches /\ resp.at - resp.row_before.generated_at <= CacheLifetimeHours)
    => LET row == resp.row_before
           stored == JsonLoads(row.insights_json)
       IN /\ ~should_regenerate_insights(row, resp.data, resp.at)
          /\ resp.path = "hit"
          /\ ~resp.called_generator
          /\ DOMAIN resp.insights = DOMAIN stored \cup {"cached"}
          /\ \A k \in NarrativeKeys(stored) : resp.insights[k] = stored[k]
          /\ resp.insights.cached = TRUE
          /\ FromIsoFormat(resp.insights.generated_at) = row.generated_at
          /\ resp.insights.model_version = row.llm_model_version

\* C1 witness: a hit on an entry that is exactly 30 days old
C1_Witness ==
    /\ FingerprintMatches
    /\ resp.at - resp.row_before.generated_at = CacheLifetimeHours
    /\ resp.path = "hit"
    /\ resp.insights.cached

\* C2 (as claimed): an entry older than 30 days by any amount is
\* regenerated although its fingerprint still matches.
C2_OlderThan30DaysRegenerates ==
    (FingerprintMatches /\ resp.at - resp.row_before.generated_at > CacheLifetimeHours)
    => /\ should_regenerate_insights(resp.row_before, resp.data, resp.at)
       /\ resp.path # "hit"

\* C3 (as claimed): reordering the records inside a collection leaves the
\* fingerprint unchanged.
C3_ReorderKeepsFingerprint ==
    edit.kind = "reorder"
    => calculate_data_hash(vehicle) = calculate_data_hash(prevVehicle)

StatusEdits ==
    {"set_recall_status", "set_theft_status", "flip_outstanding_finance",
     "flip_total_loss"}

\* C4 (as claimed): adding a record, changing the status of a recall or of
\* a theft record, or flipping outstanding_finance on a finance record at
\* any position changes the fingerprint.
C4_AnyCoveredChangeChangesFingerprint ==
    edit.kind \in {"add", "set_recall_status", "set_theft_status",
                   "flip_outstanding_finance"}
    => calculate_data_hash(vehicle) # calculate_data_hash(prevVehicle)

\* C4 (amended): adding a record to any collection, changing mot_status,
\* changing the status of the last recall or theft record of its
\* collection, or flipping total_loss / outstanding_finance on the last
\* claim / finance record changes the fingerprint.
C4_LastRecordChangeChangesFingerprint ==
    (\/ edit.kind \in {"add", "set_mot_status"}
     \/ edit.kind \in StatusEdits /\ edit.index = Len(vehicle[edit.coll]))
    => calculate_data_hash(vehicle) # calculate_data_hash(prevVehicle)

\* C4 witness: outstanding_finance flipped on the last of two finance records
C4_Witness ==
    /\ edit.kind = "flip_outstanding_finance"
    /\ Len(vehicle.finance_records) = 2
    /\ edit.index = 2
    /\ calculate_data_hash(vehicle) # calculate_data_hash(prevVehicle)

\* C5: two aggregates that differ only in a field outside the projection
\* (advisory notes of a history record, the description of a claim, a
\* valuation amount), updated_at being the same, have the same fingerprint.
C5_CosmeticEditKeepsFingerprint ==
    edit.kind = "cosmetic"
    => /\ vehicle.basic.updated_at = prevVehicle.basic.updated_at
       /\ calculate_data_hash(vehicle) = calculate_data_hash(prevVehicle)

\* C5 witness: the notes of a history record changed beside another record
C5_Witness ==
    /\ edit.kind = "cosmetic"
    /\ edit.coll = "history"
    /\ vehicle # prevVehicle
    /\ TotalRecords(vehicle) = 2

\* The greatest mileage over all history events and mileage readings
MaxMileageOverAll(d) ==
    LET known == ({d.history[i].mileage : i \in 1..Len(d.history)}
                  \cup {d.mileage_records[i].mileage : i \in 1..Len(d.mileage_records)})
                 \ {NoMileage}
    IN IF known = {} THEN NoMileage
       ELSE CHOOSE m \in known : \A n \in known : n <= m

\* C6 (as claimed): the mileage that enters the fingerprint is the maximum
\* mileage over all history events and all mileage readings.
C6_FingerprintMileageIsMaximum ==
    calculate_data_hash(vehicle).sha256.basic.mileage = MaxMileageOverAll(vehicle)

RequiredKeys ==
    {"summary", "key_insights", "owner_advice", "reliability_assessment",
     "value_assessment", "attention_items", "cost_insights", "technical_highlights",
     "generated_at", "model_version", "error"}

\* Every section of the artifact is there, with its sub-fields
WellFormed(a) ==
    /\ RequiredKeys \subseteq DOMAIN a
    /\ {"score", "explanation"} \subseteq DOMAIN a.reliability_assessment
    /\ {"current_market_position", "factors_affecting_value"}
           \subseteq DOMAIN a.value_assessment
    /\ {"typical_maintenance", "insurance_notes", "fuel_efficiency"}
           \subseteq DOMAIN a.cost_insights

\* C7: when the external call raises, generate_vehicle_insights raises
\* nothing and returns an artifact with error = true that holds every
\* section field, generated_at and model_version.
C7_FallbackOnRaisedCall ==
    (genOut.done /\ genIn.raised)
    => /\ ~genOut.raised
       /\ WellFormed(genOut.value)
       /\ genOut.value.error = TRUE

\* C7 witness: the call raised and the fallback artifact came back
C7_Witness ==
    /\ genOut.done
    /\ genIn.raised
    /\ ~genOut.raised
    /\ genOut.value.model_version = "fallback_system"

\* The generator returned a text that json.loads rejects once the parser
\* has taken the fence off it
UnparsableText ==
    /\ ~genIn.raised
    /\ ~FormatRaises(vehicle)
    /\ ~JsonLoadsOk(CleanText(genIn.text))

\* The artifact parse builds around a text it could not load
IsParseErrorArtifact(a, text) ==
    /\ a.error = TRUE
    /\ "error_parsing" \in DOMAIN a /\ a.error_parsing = TRUE
    /\ a.summary = <<a.summary[1]>> \o text

C9_NoErrorArtifactInCache ==
    /\ summary.exists
       => LET stored == JsonLoads(summary.insights_json)
          IN "error" \in DOMAIN stored /\ stored.error = FALSE
    /\ (resp.op = "lookup" /\ resp.path # "raised" /\ resp.insights.error)
       => summary = resp.row_before

\* C9 witness: an error artifact was returned while a row was in the cache
C9_Witness ==
    /\ resp.op = "lookup"
    /\ resp.path = "error_artifact"
    /\ resp.insights.error
    /\ summary.exists

\* C10 (as claimed): whenever a lookup is not served from the cache, the
\* artifact it returns carries cached = false.
C10_MissCarriesCachedFalse ==
    (resp.op = "lookup" /\ resp.path # "hit")
    => /\ resp.path # "raised"
       /\ "cached" \in DOMAIN resp.insights
       /\ resp.insights.cached = FALSE

\* The artifact the generator returned to the lookup
Generated == generate_vehicle_insights(resp.data, resp.outcome, resp.at).value

\* A lookup whose generation succeeded and whose upsert failed
UpsertFailed ==
    /\ resp.op = "lookup"
    /\ resp.path \in {"not_persisted", "raised"}

\* C11 (as claimed): when the cache upsert fails after a successful
\* generation, the lookup still returns the freshly generated artifact, with
\* error = false and the narrative as generated, and the cache row is left
\* as it was before the attempt.
C11_PersistenceFailureSwallowed ==
    UpsertFailed
    => /\ resp.path # "raised"
       /\ resp.insights = SetKey(Generated, "cached", FALSE)
       /\ resp.insights.error = FALSE
       /\ summary = resp.row_before

\* C12: after an invalidate the vehicle has no cache row; an invalidate that
\* follows an invalidate finds no row, leaves none and answers as the first
\* did; and the lookup that follows an invalidate finds no row and calls the
\* generator instead of serving a cached artifact.
C12_InvalidateIdempotentAndForcesRegeneration ==
    /\ resp.op = "refresh" => summary = NoRow
    /\ (resp.op = "refresh" /\ resp.after_refresh)
       => resp.row_before = NoRow /\ summary = resp.row_before
    /\ (resp.op = "lookup" /\ resp.after_refresh)
       => /\ resp.row_before = NoRow
          /\ resp.called_generator
          /\ resp.path # "hit"

\* C12 witness: a lookup right after an invalidate generated and persisted
C12_Witness ==
    /\ resp.op = "lookup"
    /\ resp.after_refresh
    /\ resp.called_generator
    /\ resp.path = "persisted"
    /\ summary.exists

\* C13 (as claimed): whatever else is in flight, the first lookup that
\* starts after an invalidate has committed is not served from a cache row:
\* it calls the generator.
C13_FirstLookupAfterInvalidateRegenerates ==
    \A p \in Requests :
        (req[p].first_after /\ req[p].pc # "idle") => req[p].path # "hit"

\* The lookups that read the cache before any upsert was attempted, all
\* finished, each having generated an artifact and attempted its upsert
RaceOver ==
    /\ \A p \in Requests : req[p].pc = "done" /\ req[p].raced
    /\ \A p \in Requests : \E i \in 1..Len(hist.attempts) : hist.attempts[i] = p

\* C20 (as claimed): lookups of one vehicle that all read the cache before
\* any of them writes all return their generated artifact without error, and
\* the cache row then holds the artifact of the one that attempted its
\* upsert last.
C20_RacingMissesLastWriterWins ==
    RaceOver
    => /\ \A p \in Requests :
              /\ req[p].path \in {"persisted", "not_persisted"}
              /\ req[p].insights = SetKey(req[p].artifact, "cached", FALSE)
              /\ req[p].insights.error = FALSE
       /\ summary.exists
       /\ summary.insights_json = JsonDumps(req[Last(hist.attempts)].artifact)

\* The reliability score of an artifact
ScoreOf(insights_dict) == insights_dict.reliability_assessment.score

\* has_issues as the specification defines it
ClaimedHasIssues(d, insights_dict) ==
    \/ \E i \in 1..Len(d.history) :
           IsMot(d.history[i].event_type) /\ IsFail(d.history[i].pass_fail)
    \/ \E i \in 1..Len(d.recalls) : IsOpenRecall(d.recalls[i].recall_status)
    \/ \E i \in 1..Len(d.theft_records) : d.theft_records[i].current_status = "stolen"
    \/ \E i \in 1..Len(d.insurance_claims) : d.insurance_claims[i].total_loss
    \/ \E i \in 1..Len(d.finance_records) : d.finance_records[i].outstanding_finance
    \/ \E i \in 1..Len(insights_dict.attention_items) :
           insights_dict.attention_items[i] \in IssueItems
    \/ /\ ScoreIsInt(ScoreOf(insights_dict))
       /\ ScoreInt(ScoreOf(insights_dict)) <= LOW_RELIABILITY_SCORE

\* C14 (as claimed): has_issues is true exactly when a MOT record failed, a
\* recall is open, a theft record is stolen, a claim is a total loss, a
\* finance record is outstanding, an attention item carries an issue
\* keyword, or the reliability score is a number of at most 3, 0 included.
C14_HasIssuesExactly ==
    flagOut.done
    => ((flagOut.has_issues = "true") <=> ClaimedHasIssues(vehicle, flagIn.insights))

\* needs_attention as the specification defines it: a finance record that
\* ended in the past does not end within 60 days
ClaimedNeedsAttention(d, insights_dict, t) ==
    \/ \E due \in {d.basic.mot_expiry_date, d.basic.tax_due_date} :
           due # NoDate /\ due - Today(t) <= MOT_TAX_DUE_DAYS
    \/ \E i \in 1..Len(d.finance_records) :
           \/ d.finance_records[i].outstanding_finance
           \/ /\ d.finance_records[i].finance_end_date # NoDate
              /\ d.finance_records[i].finance_end_date >= Today(t)
              /\ d.finance_records[i].finance_end_date - Today(t) <= FINANCE_END_DAYS
    \/ \E i \in 1..Len(insights_dict.attention_items) :
           insights_dict.attention_items[i] \in AttentionItems

\* C16 (as claimed): needs_attention is true exactly when the MOT expiry or
\* the tax due date is within 30 days, a finance record is outstanding or
\* ends within 60 days, or an attention item carries a due-date, recall or
\* finance keyword; a settled finance record that ended in the past, with
\* MOT and tax more than 30 days ahead and no keyword, gives false.
C16_NeedsAttentionExactly ==
    flagOut.done
    => (flagOut.needs_attention
        <=> ClaimedNeedsAttention(vehicle, flagIn.insights, now))

\* A lookup of a vehicle that has a total-loss insurance claim
TotalLossLookup ==
    /\ resp.op = "lookup"
    /\ \E i \in 1..Len(resp.data.insurance_claims) :
           resp.data.insurance_claims[i].total_loss

MatchesStored ==
    LET stripped == StripSpaces(apiReq.key)
    IN IF apiReq.search_type = "vin"
       THEN Upper(stripped) = Chars(vehicle.basic.vin)
       ELSE Upper(RemoveSpaces(stripped)) = Chars(vehicle.basic.vrm)

\* C17 (as claimed): a VRM lookup reaches the loader exactly when the key,
\* trimmed, without its internal spaces and in upper case, has between 2
\* and 15 characters; every other key is answered 400 before any database
\* access.
C17_VrmAcceptedExactlyWhenCleanedLengthFits ==
    (apiResp.done /\ apiReq.search_type = "vrm")
    => LET cleaned == Upper(RemoveSpaces(StripSpaces(apiReq.key)))
           fits == Len(cleaned) >= VRM_MIN_LENGTH /\ Len(cleaned) <= VRM_MAX_LENGTH
       IN /\ apiResp.loader_called <=> fits
          /\ ~fits => apiResp.status = 400

\* C18 (as claimed): a lookup answers 404 only when no stored vehicle
\* matches the key; an internal error while loading or assembling the
\* payload of an existing vehicle is answered 500, never 404.
C18_NotFoundOnlyWhenNoVehicleMatches ==
    apiResp.done
    => /\ apiResp.status = 404 => ~MatchesStored
       /\ (apiResp.raised /\ MatchesStored) => apiResp.status = 500

\* C19 (as claimed): a well-formed VIN of a stored vehicle is answered 200
\* with ai_insights and detailed_data, whether the generator succeeds or
\* fails: every artifact the service returns satisfies the required fields
\* of the response schema.
C19_StoredVinAnswers200 ==
    (/\ apiResp.done
     /\ apiReq.search_type = "vin"
     /\ Len(StripSpaces(apiReq.key)) = VIN_LENGTH
     /\ MatchesStored
     /\ apiReq.db = "up"
     /\ apiReq.commit = "ok")
    => /\ apiResp.status = 200
       /\ {"ai_insights", "detailed_data"} \subseteq DOMAIN apiResp.body
       /\ ValidatesAIInsights(apiResp.body.ai_insights)

\* C21: over lookups running side by side, invalidations, failed
\* generations and failed upserts, the table holds at most one cache row of
\* the vehicle (a row is inserted only while there is none), a row
\* disappears only in an invalidate step, and a regeneration that finds a
\* row overwrites that very row (same primary key, same created_at).
C21_OneRowOverwrittenInPlace ==
    [][/\ (hist.row_id # 0) <=> summary.exists
       /\ hist.issued' # hist.issued => (~summary.exists /\ summary'.exists)
       /\ (summary.exists /\ ~summary'.exists) => Invalidate
       /\ (summary.exists /\ summary'.exists)
          => (hist.row_id' = hist.row_id /\ summary'.created_at = summary.created_at)]_vars

C21_Witness ==
    /\ summary.exists
    /\ \E p, q \in Requests :
          /\ req[p].path = "persisted" /\ ~req[p].existing
          /\ req[q].path = "raised" /\ ~req[q].existing
    /\ hist.row_id = hist.issued

\* C22 (as claimed): a lookup that finds a cache row whose fingerprint or
\* generation timestamp is NULL regenerates through the generator as on an
\* ordinary miss (the fingerprint of the current data being computable); it
\* does not end in the fallback of the exception handler.
C22_NullFingerprintOrTimestampRegenerates ==
    (/\ resp.op = "lookup"
     /\ resp.row_before.exists
     /\ ~HashRaises(resp.data)
     /\ \/ resp.row_before.data_hash = NullHash
        \/ resp.row_before.generated_at = NoDate)
    => (resp.called_generator /\ resp.path # "exception")

\* A JSON object in a Markdown code fence: an opening fence with or without
\* the language tag, the object tok with whitespace around it, a closing
\* fence
FenceWrapped(text, tok) ==
    /\ Len(text) >= 3
    /\ text[1] = FENCE
    /\ Last(text) = FENCE
    /\ LET inner == SubSeq(text, 2, Len(text) - 1)
           body == IF inner[1] = LANG THEN Tail(inner) ELSE inner
       IN Strip(body) = <<tok>>

\* C23 (as claimed): a JSON object wrapped in a code fence, with or without
\* the json language tag, gives the same result as the unwrapped object.
C23_FencedObjectParsesLikeUnwrapped ==
    \A tok \in ObjectTokens :
        (genOut.done /\ ~genIn.raised /\ FenceWrapped(genIn.text, tok))
        => genOut.value = generate_vehicle_insights(vehicle, Returned(<<tok>>), now).value

\* C24 (as claimed): an empty text from the call is treated like a call
\* that raises: generate returns the fallback artifact built from the
\* basic fields, with its model_version and error = true.
C24_EmptyResponseGivesFallback ==
    (genOut.done /\ ~genIn.raised /\ genIn.text = <<>>)
    => /\ genOut.value = FallbackInsights(vehicle, now)
       /\ genOut.value.error = TRUE
       /\ genOut.value.model_version = "fallback_system"

C27_FailuresRetriedSuccessCached ==
    [][\A outcome \in LookupOutcomes :
           Lookup(outcome, "ok")
           => LET fresh_insights ==
                      generate_vehicle_insights(vehicle, outcome, now).value
                  unchanged == resp.op = "lookup" /\ resp.data = vehicle
              IN /\ resp'.path = "error_artifact" => summary' = summary
                 /\ (unchanged /\ resp.path = "error_artifact")
                    => resp'.called_generator
                 /\ (resp'.called_generator /\ ~fresh_insights.error)
                    => (resp'.path = "persisted" /\ summary'.exists)
                 /\ (/\ unchanged
                     /\ resp.path = "persisted"
                     /\ Days(now - resp.at) <= CACHE_TTL_DAYS)
                    => resp'.path = "hit"]_vars


\* C30: persistence is total over aggregates. Whatever the aggregate,
\* records with NULL optional fields included, a lookup whose generation
\* returns a non-error artifact (the database statements succeeding) ends
\* with a stored row, and the next lookup of the unchanged vehicle is served
\* from the cache.
C30_NonErrorArtifactIsPersistedForEveryAggregate ==
    [][\A outcome \in LookupOutcomes :
           (/\ Lookup(outcome, "ok")
            /\ resp'.called_generator
            /\ resp'.path # "exception"
            /\ ~resp'.insights.error)
           => /\ summary'.exists
              /\ summary'.data_hash = calculate_data_hash(vehicle)
              /\ get_or_generate_ai_insights(summary', vehicle, now,
                                             outcome, "ok").path = "hit"]_vars

\* C28: flag coherence with data. A row written from the aggregate as it
\* was before an edit, and served as a cache hit for the aggregate as it is
\* after the edit, carries the has_issues the rule gives on the aggregate
\* as it is now: an edit that flips a data-derived condition of the rule
\* is never followed by a hit.
C28_HitServesHasIssuesOfCurrentData ==
    LET fresh_insights == Stamp(ObjectOf("{insights}"), now)
        row == cache_ai_insights(NoRow, prevVehicle, fresh_insights, now, "ok")
        served == get_or_generate_ai_insights(row, vehicle, now, Raised, "ok")
    IN (edit.kind # "none" /\ row.exists /\ served.path = "hit")
       => row.has_issues
          = (check_has_issues(vehicle, JsonLoads(row.insights_json)) = "true")

\* C29: flag coherence with time. A row served as a cache hit within the
\* 30-day lifetime, the data being as it was when the row was written,
\* carries the needs_attention the rule gives at the current date.
C29_HitServesNeedsAttentionOfToday ==
    (/\ resp.op = "lookup"
     /\ resp.path = "hit"
     /\ now - summary.updated_at <= CacheLifetimeHours
     /\ summary.data_hash = calculate_data_hash(vehicle))
    => summary.needs_attention
       = check_needs_attention(vehicle, JsonLoads(summary.insights_json), now)

============================================================================
